---- MODULE Spec2Model ----
(***************************************************************************)
(* css-selector-finder: CSSSelectorFinder (src/index.ts) and CSSPathStep   *)
(* (src/unnamed/part_000, lines 19-256) over a DOM tree.                   *)
(*                                                                         *)
(* A JavaScript string is a sequence of UTF-16 code units (integers), so   *)
(* that escaping, splitting, case folding and number formatting are        *)
(* computed character by character.  "p.hit" is <<112, 46, 104, 105, 116>>.*)
(***************************************************************************)
EXTENDS Integers, Sequences, FiniteSets, TLC

VARIABLES dom, pc, target, contextNode, steps, path, iters, built, escIn, escOut

vars == <<dom, pc, target, contextNode, steps, path, iters, built, escIn, escOut>>

----------------------------------------------------------------------------
(* Bounds of the model.                                                    *)

\* nodes of a tree of the path-level specification (root included)
MaxNodes == 4
\* siblings of an element in the sibling-scan specification
MaxSiblings == 2
\* children of the root in the input-decoration specification
MaxInputs == 2
\* nodes of a chain of the termination specification (root included)
MaxChain == 4
\* length of an identifier handed to escapeIdentifierIfNeeded
MaxIdentLen == 3

----------------------------------------------------------------------------
(* JavaScript values.                                                      *)

\* null where a string is expected (getAttribute of an absent attribute,
\* DOMNodePathStep.value): no string holds the code unit -1
NULL == <<-1>>

\* null where a node is expected (parentNode, parentElement, contextNode);
\* nodes are numbered from 1
NullNode == 0

\* a string in a boolean context: null and "" are falsy
Truthy(s) == s # NULL /\ s # <<>>

Letters == (65..90) \cup (97..122)
Digits == 48..57

\* String.prototype.toLowerCase on the ASCII range
ToLowerCase(s) == [i \in 1..Len(s) |-> IF s[i] \in 65..90 THEN s[i] + 32 ELSE s[i]]

\* one hexadecimal digit, lower case, as a code unit
HexDigit(d) == IF d < 10 THEN 48 + d ELSE 87 + d

\* Number.prototype.toString(16) of a non-negative integer
RECURSIVE ToString16(_)
ToString16(n) == IF n < 16 THEN <<HexDigit(n)>> ELSE ToString16(n \div 16) \o <<HexDigit(n % 16)>>

\* the decimal rendering of a non-negative integer in a template literal
RECURSIVE ToString10(_)
ToString10(n) == IF n < 10 THEN <<48 + n>> ELSE ToString10(n \div 10) \o <<48 + (n % 10)>>

\* the regular expression class \s
IsWhiteSpace(c) ==
    c \in {9, 10, 11, 12, 13, 32, 160, 5760, 8232, 8233, 8239, 8287, 12288, 65279}
        \cup (8192..8202)

\* the characters the regular expression . does not match (no s flag)
IsLineTerminator(c) == c \in {10, 13, 8232, 8233}

\* s.split(/\s+/g).filter(Boolean): the maximal runs of non-whitespace
RECURSIVE SplitWhiteSpace(_, _, _)
SplitWhiteSpace(s, i, cur) ==
    IF i > Len(s) THEN (IF cur = <<>> THEN <<>> ELSE <<cur>>)
    ELSE IF IsWhiteSpace(s[i])
         THEN (IF cur = <<>> THEN <<>> ELSE <<cur>>) \o SplitWhiteSpace(s, i + 1, <<>>)
         ELSE SplitWhiteSpace(s, i + 1, Append(cur, s[i]))

\* Array.prototype.includes / indexOf (1-based; 0 when absent)
Includes(arr, x) == \E i \in 1..Len(arr) : arr[i] = x
IndexOf(arr, x) == IF Includes(arr, x) THEN CHOOSE i \in 1..Len(arr) : arr[i] = x /\ \A j \in 1..(i - 1) : arr[j] # x ELSE 0

\* arr.splice(i, 1)
Splice1(arr, i) == [j \in 1..(Len(arr) - 1) |-> IF j < i THEN arr[j] ELSE arr[j + 1]]

----------------------------------------------------------------------------
(* CSSPathStep: identifier escaping.                                       *)

\* /^-?[a-zA-Z_][a-zA-Z0-9_-]*$/.test(value)
isCSSIdentifier(value) ==
    LET start == IF Len(value) > 0 /\ value[1] = 45 THEN 2 ELSE 1
    IN  /\ start <= Len(value)
        /\ value[start] \in Letters \cup {95}
        /\ \A i \in (start + 1)..Len(value) : value[i] \in Letters \cup Digits \cup {95, 45}

\* the code point from which a character is an identifier character
IdentCharFloor == 160

isCSSIdentChar(c) ==
    IF c \in Letters \cup Digits \cup {95, 45} THEN TRUE ELSE c >= IdentCharFloor

toHexByte(c) ==
    LET hexByte == ToString16(c)
    IN  IF Len(hexByte) = 1 THEN <<48>> \o hexByte ELSE hexByte

escapeAsciiChar(c, isLast) == <<92>> \o toHexByte(c) \o (IF isLast THEN <<>> ELSE <<32>>)

\* /^(?:[0-9]|-[0-9-]?)/.test(ident): the optional group lets every leading
\* '-' match
shouldEscapeFirst(ident) == Len(ident) > 0 /\ (ident[1] \in Digits \/ ident[1] = 45)

\* ident.replace(/./g, callback): the callback runs on every code unit but
\* the line terminators, which . does not match and replace leaves in place
RECURSIVE ReplaceEachChar(_, _)
ReplaceEachChar(ident, i) ==
    IF i > Len(ident) THEN <<>>
    ELSE LET c == ident[i]
             out == IF IsLineTerminator(c) THEN <<c>>
                    ELSE IF (shouldEscapeFirst(ident) /\ i = 1) \/ ~isCSSIdentChar(c)
                         THEN escapeAsciiChar(c, i = Len(ident))
                         ELSE <<c>>
         IN  out \o ReplaceEachChar(ident, i + 1)

escapeIdentifierIfNeeded(ident) ==
    IF isCSSIdentifier(ident) THEN ident ELSE ReplaceEachChar(ident, 1)

idSelector(id) == <<35>> \o escapeIdentifierIfNeeded(id)

----------------------------------------------------------------------------
(* The DOM read by the program.  A tree is a record                        *)
(*   n      the number of nodes, numbered 1..n in breadth-first document   *)
(*          order (siblings in increasing order), node 1 being the root;   *)
(*   parent the parent of each node (NullNode for the root);               *)
(*   attrs  per node: nodeType, tagName and the attributes id, class and   *)
(*          type (NULL when the attribute is absent).                      *)

Element(tag, id, class, type) ==
    [nodeType |-> "ELEMENT_NODE", tagName |-> tag, id |-> id, class |-> class, type |-> type]
TextNode == [nodeType |-> "TEXT_NODE", tagName |-> NULL, id |-> NULL, class |-> NULL, type |-> NULL]
DocumentNode == [nodeType |-> "DOCUMENT_NODE", tagName |-> NULL, id |-> NULL, class |-> NULL, type |-> NULL]
DocumentFragment == [nodeType |-> "DOCUMENT_FRAGMENT_NODE", tagName |-> NULL, id |-> NULL, class |-> NULL, type |-> NULL]

nodeType(d, x) == d.attrs[x].nodeType
tagName(d, x) == d.attrs[x].tagName
getAttribute(d, x, name) == d.attrs[x][name]
parentNode(d, x) == d.parent[x]

\* parentElement that hands back the node itself where there is no parent
\* element
parentElementSticky(d, x) ==
    IF d.parent[x] # NullNode /\ nodeType(d, d.parent[x]) = "ELEMENT_NODE" THEN d.parent[x] ELSE x

\* Node.parentElement: the parent when it is an element, else null
parentElement(d, x) ==
    IF d.parent[x] # NullNode /\ nodeType(d, d.parent[x]) = "ELEMENT_NODE" THEN d.parent[x] ELSE NullNode

\* Node.childNodes, in document order
RECURSIVE ChildNodesFrom(_, _, _)
ChildNodesFrom(d, p, i) ==
    IF i > d.n THEN <<>>
    ELSE (IF d.parent[i] = p THEN <<i>> ELSE <<>>) \o ChildNodesFrom(d, p, i + 1)
childNodes(d, p) == ChildNodesFrom(d, p, 1)

\* ParentNode.children: the element children, in document order
children(d, p) ==
    LET all == childNodes(d, p)
    IN  SelectSeq(all, LAMBDA x : nodeType(d, x) = "ELEMENT_NODE")

----------------------------------------------------------------------------
(* CSSPathStep.                                                            *)

prefixedElementClassNames(d, node) ==
    LET classAttribute == getAttribute(d, node, "class")
    IN  IF ~Truthy(classAttribute) THEN <<>>
        ELSE LET names == SplitWhiteSpace(classAttribute, 1, <<>>)
             IN  [i \in 1..Len(names) |-> <<36>> \o names[i]]

\* What getOptimizedValue leaves computeStep with is a step, null, or an
\* Error.

\* the step of a parentless element with the optimized flag left out
OrphanStepNotOptimized(nodeName) == [kind |-> "step", value |-> nodeName, optimized |-> FALSE]

OrphanStep(nodeName) == [kind |-> "step", value |-> nodeName, optimized |-> TRUE]

\* getOptimizedValue returning null for a child of the document
DocumentChildIgnored == [kind |-> "null", value |-> NULL, optimized |-> FALSE]

\* `throw new Error('The child of a Document must be <html></html>')`
DocumentChildError == [kind |-> "throw", value |-> NULL, optimized |-> FALSE]

getOptimizedValue(d, element) ==
    LET id == getAttribute(d, element, "id")
        nodeName == ToLowerCase(tagName(d, element))
        parent == parentNode(d, element)
    IN  IF Truthy(id) THEN [kind |-> "step", value |-> idSelector(id), optimized |-> TRUE]
        ELSE IF nodeName \in {<<104, 116, 109, 108>>, <<104, 101, 97, 100>>, <<98, 111, 100, 121>>}
             THEN [kind |-> "step", value |-> nodeName, optimized |-> TRUE]
        ELSE IF parent = NullNode THEN OrphanStep(nodeName)
        ELSE IF nodeType(d, parent) = "DOCUMENT_NODE"
             THEN DocumentChildError
        ELSE [kind |-> "null", value |-> NULL, optimized |-> FALSE]

\* the inner loop over the classes of one same-tag sibling (lines 194-202):
\* each class of the sibling that the element still carries removes one
\* occurrence of it; the count reaching 0 asks for :nth-child
RECURSIVE SiblingClassLoop(_, _, _, _)
SiblingClassLoop(siblingClassNamesArray, j, ownNames, ownClassNameCount) ==
    IF j > Len(siblingClassNamesArray) THEN [names |-> ownNames, needsNthChild |-> FALSE]
    ELSE LET siblingClass == siblingClassNamesArray[j]
         IN  IF ~Includes(ownNames, siblingClass)
             THEN SiblingClassLoop(siblingClassNamesArray, j + 1, ownNames, ownClassNameCount)
             ELSE LET spliced == Splice1(ownNames, IndexOf(ownNames, siblingClass))
                  IN  IF ownClassNameCount - 1 = 0
                      THEN [names |-> spliced, needsNthChild |-> TRUE]
                      ELSE SiblingClassLoop(siblingClassNamesArray, j + 1, spliced, ownClassNameCount - 1)

\* the loop over the parent's children (lines 177-203); i is zero-based
RECURSIVE SiblingLoop(_, _, _, _, _)
SiblingLoop(d, node, siblings, i, st) ==
    IF ~((st.ownIndex = -1 \/ ~st.needsNthChild) /\ i < Len(siblings)) THEN st
    ELSE LET sibling == siblings[i + 1]
             nodeName == ToLowerCase(tagName(d, node))
         IN  IF nodeType(d, sibling) # "ELEMENT_NODE" THEN SiblingLoop(d, node, siblings, i + 1, st)
             ELSE LET st1 == [st EXCEPT !.elementIndex = @ + 1]
                  IN  IF sibling = node
                      THEN SiblingLoop(d, node, siblings, i + 1, [st1 EXCEPT !.ownIndex = st1.elementIndex])
                      ELSE IF st1.needsNthChild THEN SiblingLoop(d, node, siblings, i + 1, st1)
                      ELSE IF ToLowerCase(tagName(d, sibling)) # nodeName
                           THEN SiblingLoop(d, node, siblings, i + 1, st1)
                      ELSE IF Len(st1.ownClassNames) = 0
                           THEN SiblingLoop(d, node, siblings, i + 1, [st1 EXCEPT !.needsNthChild = TRUE])
                      ELSE LET r == SiblingClassLoop(prefixedElementClassNames(d, sibling), 1,
                                                     st1.ownClassNames, Len(st1.ownClassNames))
                           IN  SiblingLoop(d, node, siblings, i + 1,
                                   [st1 EXCEPT !.ownClassNames = r.names,
                                               !.needsNthChild = r.needsNthChild])

getWritingMode(d, node) ==
    LET st == SiblingLoop(d, node, children(d, parentNode(d, node)), 0,
                  [needsNthChild |-> FALSE, ownIndex |-> -1, elementIndex |-> -1,
                   ownClassNames |-> prefixedElementClassNames(d, node)])
    IN  [mode |-> IF st.needsNthChild THEN "NTH_CHILD" ELSE "TAGNAME_AND_CLASSNAME",
         index |-> st.ownIndex,
         ownClassNames |-> st.ownClassNames]

\* the locals of computeStep when getWritingMode was not reached
NoWritingMode == [mode |-> "none", index |-> -1, ownClassNames |-> <<>>]

\* the keys `for (... in prefixedOwnClassNames.values())` enumerates: an Array
\* Iterator object has no enumerable property, whatever the array holds
ForInKeys(arr) == <<>>

\* the body of the for-in loop (line 241) over the enumerated keys
RECURSIVE AppendClassNames(_, _)
AppendClassNames(keys, i) ==
    IF i > Len(keys) THEN <<>>
    ELSE <<46>> \o escapeIdentifierIfNeeded(SubSeq(keys[i], 2, Len(keys[i])))
             \o AppendClassNames(keys, i + 1)

\* the decoration without the isTargetNode test
TypeDecorationOnAnyStep(d, node, isTargetNode, nodeName) ==
    IF /\ ToLowerCase(nodeName) = <<105, 110, 112, 117, 116>>
       /\ Truthy(getAttribute(d, node, "type"))
       /\ ~Truthy(getAttribute(d, node, "id"))
       /\ ~Truthy(getAttribute(d, node, "class"))
    THEN <<91, 116, 121, 112, 101, 61, 34>> \o getAttribute(d, node, "type") \o <<34, 93>>
    ELSE <<>>

\* [type="..."] of lines 226-233
TypeDecoration(d, node, isTargetNode, nodeName) ==
    IF /\ isTargetNode
       /\ ToLowerCase(nodeName) = <<105, 110, 112, 117, 116>>
       /\ Truthy(getAttribute(d, node, "type"))
       /\ ~Truthy(getAttribute(d, node, "id"))
       /\ ~Truthy(getAttribute(d, node, "class"))
    THEN <<91, 116, 121, 112, 101, 61, 34>> \o getAttribute(d, node, "type") \o <<34, 93>>
    ELSE <<>>

\* :nth-child written with the zero-based index
NthChildSuffixZeroBased(ownIndex) ==
    <<58, 110, 116, 104, 45, 99, 104, 105, 108, 100, 40>> \o ToString10(ownIndex) \o <<41>>

\* `:nth-child(${ownIndex + 1})` of line 237
NthChildSuffix(ownIndex) ==
    <<58, 110, 116, 104, 45, 99, 104, 105, 108, 100, 40>> \o ToString10(ownIndex + 1) \o <<41>>

\* computeStep: the DOMNodePathStep it returns (value, optimized), threw when
\* it throws instead, and the locals it took from getWritingMode
computeStep(d, node, isTargetNode) ==
    IF nodeType(d, node) # "ELEMENT_NODE"
    THEN [threw |-> TRUE, value |-> NULL, optimized |-> FALSE, writing |-> NoWritingMode]
    ELSE LET optimizedValue == getOptimizedValue(d, node)
         IN  IF optimizedValue.kind = "throw"
             THEN [threw |-> TRUE, value |-> NULL, optimized |-> FALSE, writing |-> NoWritingMode]
             ELSE IF optimizedValue.kind = "step"
             THEN [threw |-> FALSE, value |-> optimizedValue.value,
                   optimized |-> optimizedValue.optimized, writing |-> NoWritingMode]
             ELSE LET nodeName == ToLowerCase(tagName(d, node))
                      w == getWritingMode(d, node)
                      result == nodeName \o TypeDecoration(d, node, isTargetNode, nodeName)
                      suffix == IF w.mode = "NTH_CHILD" THEN NthChildSuffix(w.index)
                                ELSE AppendClassNames(ForInKeys(w.ownClassNames), 1)
                  IN  [threw |-> FALSE, value |-> result \o suffix, optimized |-> FALSE,
                       writing |-> w]

\* new CSSPathStep(node, isTargetNode): the object's fields after init()
CSSPathStep(d, node, isTargetNode) ==
    LET s == computeStep(d, node, isTargetNode)
    IN  [node |-> node, isTargetNode |-> isTargetNode, value |-> s.value,
         optimized |-> s.optimized, threw |-> s.threw, writing |-> s.writing]

isNull(step) == step.value = NULL

\* no CSSPathStep was constructed
NoStep == [node |-> NullNode, isTargetNode |-> FALSE, value |-> NULL, optimized |-> FALSE,
           threw |-> FALSE, writing |-> NoWritingMode]

----------------------------------------------------------------------------
(* CSSSelectorFinder (src/index.ts).                                        *)

\* Array.prototype.reverse
Reverse(arr) == [i \in 1..Len(arr) |-> arr[Len(arr) + 1 - i]]

\* the loop without its break on an optimized step
NeverBreak(step) == FALSE

\* `if (step.optimized) break;` of line 45
BreakOnOptimized(step) == step.optimized

\* toString(): path.map((step) => step.value).join(' > ')
RECURSIVE Join(_, _)
Join(p, i) ==
    IF i > Len(p) THEN <<>>
    ELSE (IF i > 1 THEN <<32, 62, 32>> ELSE <<>>) \o p[i].value \o Join(p, i + 1)
toString(p) == Join(p, 1)

\* new CSSSelectorFinder(node): the constructor enters cssPath; a target that
\* is no element returns [] at line 38
Start(node) ==
    /\ pc = "idle"
    /\ target' = node
    /\ IF nodeType(dom, node) # "ELEMENT_NODE"
       THEN /\ path' = <<>>
            /\ pc' = "done"
            /\ UNCHANGED contextNode
       ELSE /\ contextNode' = node
            /\ pc' = "loop"
            /\ UNCHANGED path
    /\ UNCHANGED <<dom, steps, iters, built, escIn, escOut>>

\* one iteration of the while loop of lines 41-47
LoopStep ==
    /\ pc = "loop"
    /\ contextNode # NullNode
    /\ iters' = iters + 1
    /\ LET step == CSSPathStep(dom, contextNode, contextNode = target)
       IN  IF step.threw
           THEN /\ pc' = "thrown"
                /\ UNCHANGED <<steps, contextNode>>
           ELSE IF isNull(step)
           THEN /\ pc' = "return"
                /\ UNCHANGED <<steps, contextNode>>
           ELSE /\ steps' = Append(steps, step)
                /\ IF BreakOnOptimized(step)
                   THEN /\ pc' = "return"
                        /\ UNCHANGED contextNode
                   ELSE /\ pc' = "loop"
                        /\ contextNode' = parentElement(dom, contextNode)
    /\ UNCHANGED <<dom, target, path, built, escIn, escOut>>

\* the loop is left (by a break, or contextNode being null) and line 48
\* returns steps.reverse(), which the constructor stores in this.path
Return ==
    /\ \/ pc = "return"
       \/ pc = "loop" /\ contextNode = NullNode
    /\ path' = Reverse(steps)
    /\ pc' = "done"
    /\ UNCHANGED <<dom, target, contextNode, steps, iters, built, escIn, escOut>>

\* new CSSPathStep(node, isTargetNode) by a caller of the exported class
BuildStep(node, isTargetNode) ==
    /\ pc = "idle"
    /\ built' = CSSPathStep(dom, node, isTargetNode)
    /\ pc' = "built"
    /\ UNCHANGED <<dom, target, contextNode, steps, path, iters, escIn, escOut>>

\* escapeIdentifierIfNeeded(ident) on its own
Escape ==
    /\ pc = "escape"
    /\ escOut' = escapeIdentifierIfNeeded(escIn)
    /\ pc' = "escaped"
    /\ UNCHANGED <<dom, target, contextNode, steps, path, iters, built, escIn>>

----------------------------------------------------------------------------
(* The inputs: trees, and identifiers.                                     *)

\* tagName is upper case in an HTML document
HTML == <<72, 84, 77, 76>>
BODY == <<66, 79, 68, 89>>
DIV == <<68, 73, 86>>
P == <<80>>
INPUT == <<73, 78, 80, 85, 84>>

\* the parent functions of the trees of k nodes in breadth-first numbering
ParentFns(k) ==
    {f \in [1..k -> 0..(k - 1)] :
        /\ f[1] = NullNode
        /\ \A i \in 2..k : f[i] >= 1 /\ f[i] < i
        /\ \A i \in 2..(k - 1) : f[i] <= f[i + 1]}

\* a tree the DOM allows: only elements, documents and fragments have
\* children, and a document has at most one element child
WellFormed(d) ==
    /\ \A i \in 2..d.n : d.attrs[d.parent[i]].nodeType # "TEXT_NODE"
    /\ d.attrs[1].nodeType = "DOCUMENT_NODE" =>
           Cardinality({i \in 2..d.n : d.parent[i] = 1 /\ d.attrs[i].nodeType = "ELEMENT_NODE"}) <= 1

\* html sits at the top, body right under html, and there is one of each
HtmlShaped(d) ==
    /\ \A i \in 2..d.n :
           /\ d.attrs[i].tagName = HTML => d.attrs[d.parent[i]].nodeType = "DOCUMENT_NODE"
           /\ d.attrs[i].tagName = BODY => d.attrs[d.parent[i]].tagName = HTML
    /\ \A i, j \in 1..d.n :
           i # j /\ d.attrs[i].tagName \in {HTML, BODY} => d.attrs[i].tagName # d.attrs[j].tagName

Trees(k, Roots, Others) ==
    {[n |-> k, parent |-> f, attrs |-> [i \in 1..k |-> IF i = 1 THEN r ELSE o[i]]] :
        f \in ParentFns(k), r \in Roots, o \in [2..k -> Others]}

FlatTrees(k, Roots, Others) ==
    {d \in Trees(k, Roots, Others) : \A i \in 2..k : d.parent[i] = 1}

\* the trees of the path-level specification
PathRoots ==
    {DocumentNode, DocumentFragment,
     Element(HTML, NULL, NULL, NULL), Element(BODY, NULL, NULL, NULL),
     Element(DIV, NULL, NULL, NULL)}
PathOthers ==
    {Element(HTML, NULL, NULL, NULL), Element(BODY, NULL, NULL, NULL),
     Element(DIV, NULL, NULL, NULL), Element(DIV, NULL, <<97>>, NULL),
     Element(DIV, <<109>>, NULL, NULL), Element(DIV, <<>>, NULL, NULL)}
PathTrees(maxNodes) ==
    UNION {{d \in Trees(k, PathRoots, PathOthers) : WellFormed(d) /\ HtmlShaped(d)} : k \in 1..maxNodes}

InitCommon ==
    /\ target = NullNode
    /\ contextNode = NullNode
    /\ steps = <<>>
    /\ path = <<>>
    /\ iters = 0
    /\ built = NoStep
    /\ escIn = <<>>
    /\ escOut = <<>>

Init ==
    /\ dom \in PathTrees(MaxNodes)
    /\ pc = "idle"
    /\ InitCommon

Next ==
    \/ \E node \in 1..dom.n : Start(node)
    \/ LoopStep
    \/ Return
    \/ \E node \in 1..dom.n, isTargetNode \in BOOLEAN : BuildStep(node, isTargetNode)

Spec == Init /\ [][Next]_vars

\* Termination: chains of elements under every kind of root.  The
\* constructor runs synchronously to its end, so the loop keeps iterating and
\* cssPath returns: weak fairness of both.
ChainRoots == {DocumentNode, DocumentFragment, Element(DIV, NULL, NULL, NULL)}
ChainOthers ==
    {Element(HTML, NULL, NULL, NULL), Element(BODY, NULL, NULL, NULL),
     Element(DIV, NULL, NULL, NULL), Element(DIV, <<109>>, NULL, NULL)}
ChainTrees(maxChain) ==
    UNION {{d \in Trees(k, ChainRoots, ChainOthers) :
               /\ WellFormed(d)
               /\ HtmlShaped(d)
               /\ \A i \in 2..k : d.parent[i] = i - 1} : k \in 1..maxChain}

InitChain ==
    /\ dom \in ChainTrees(MaxChain)
    /\ pc = "idle"
    /\ InitCommon

FairSpec == InitChain /\ [][Next]_vars /\ WF_vars(LoopStep) /\ WF_vars(Return)

\* The sibling scan: one parent and its children, rich in class attributes
\* (repeated tokens, blanks, partial overlaps, another tag, either tag case).
ModeRoots == {Element(DIV, NULL, NULL, NULL), DocumentFragment}
ModeOthers ==
    {TextNode,
     Element(P, NULL, NULL, NULL), Element(P, NULL, <<97>>, NULL),
     Element(P, NULL, <<98>>, NULL), Element(P, NULL, <<97, 32, 98>>, NULL),
     Element(P, NULL, <<97, 32, 97>>, NULL), Element(P, NULL, <<32>>, NULL),
     Element(<<112>>, NULL, <<32, 97>>, NULL), Element(DIV, NULL, <<97>>, NULL)}
ModeTrees(maxSiblings) ==
    UNION {{d \in FlatTrees(k, ModeRoots, ModeOthers) : WellFormed(d)} : k \in 1..(maxSiblings + 2)}

InitMode ==
    /\ dom \in ModeTrees(MaxSiblings)
    /\ pc = "idle"
    /\ InitCommon

SpecMode == InitMode /\ [][Next]_vars

\* The [type="..."] decoration and the structural failure: inputs with and
\* without type, id and class (absent, empty, set), under every kind of root.
InputRoots ==
    {DocumentNode, DocumentFragment, Element(DIV, NULL, NULL, NULL),
     Element(INPUT, NULL, NULL, <<116, 101, 120, 116>>)}
InputOthers ==
    {TextNode,
     Element(INPUT, NULL, NULL, <<116, 101, 120, 116>>),
     Element(INPUT, NULL, NULL, <<>>),
     Element(INPUT, NULL, NULL, NULL),
     Element(INPUT, NULL, <<97>>, <<116, 101, 120, 116>>),
     Element(INPUT, NULL, <<>>, <<116, 101, 120, 116>>),
     Element(INPUT, <<109>>, NULL, <<116, 101, 120, 116>>),
     Element(INPUT, <<>>, NULL, <<116, 101, 120, 116>>),
     Element(DIV, NULL, NULL, <<116, 101, 120, 116>>),
     Element(DIV, <<109>>, NULL, NULL),
     Element(BODY, NULL, NULL, NULL)}
InputTrees(maxInputs) ==
    UNION {{d \in FlatTrees(k, InputRoots, InputOthers) : WellFormed(d)} : k \in 1..(maxInputs + 1)}

InitInput ==
    /\ dom \in InputTrees(MaxInputs)
    /\ pc = "idle"
    /\ InitCommon

SpecInput == InitInput /\ [][Next]_vars

\* The identifiers: letters of both cases, a digit, '-', '_', '.', a tab, a
\* line feed and a character above 0xA0.
IdentChars == {97, 90, 49, 45, 95, 46, 9, 10, 233}
Idents(maxLen) == UNION {[1..k -> IdentChars] : k \in 0..maxLen}

\* the one-node tree the escaping specification leaves untouched
NoTree == [n |-> 1, parent |-> <<NullNode>>, attrs |-> <<DocumentFragment>>]

InitEscape ==
    /\ dom = NoTree
    /\ pc = "escape"
    /\ target = NullNode
    /\ contextNode = NullNode
    /\ steps = <<>>
    /\ path = <<>>
    /\ iters = 0
    /\ built = NoStep
    /\ escIn \in Idents(MaxIdentLen)
    /\ escOut = <<>>

NextEscape == Escape

SpecEscape == InitEscape /\ [][NextEscape]_vars

----------------------------------------------------------------------------
(* Reading fragments and the tree, for the properties below.               *)

StartsWith(s, prefix) == Len(s) >= Len(prefix) /\ SubSeq(s, 1, Len(prefix)) = prefix

\* the first position at which sub occurs in s; 0 when it does not
FindSub(s, sub) ==
    LET hits == {i \in 1..(Len(s) - Len(sub) + 1) : SubSeq(s, i, i + Len(sub) - 1) = sub}
    IN  IF hits = {} THEN 0 ELSE CHOOSE i \in hits : \A j \in hits : i <= j

Contains(s, sub) == FindSub(s, sub) # 0

\* the number a run of decimal digits writes; -1 when s is no such run
RECURSIVE ParseDecimal(_, _)
ParseDecimal(s, acc) ==
    IF s = <<>> THEN acc
    ELSE IF s[1] \notin Digits THEN -1
    ELSE ParseDecimal(Tail(s), 10 * acc + (s[1] - 48))

\* k of the first ":nth-child(k)" of a fragment; -1 when there is none
NthChildArgument(value) ==
    LET open == <<58, 110, 116, 104, 45, 99, 104, 105, 108, 100, 40>>
        at == FindSub(value, open)
        rest == SubSeq(value, at + Len(open), Len(value))
        close == FindSub(rest, <<41>>)
    IN  IF at = 0 \/ close <= 1 THEN -1 ELSE ParseDecimal(SubSeq(rest, 1, close - 1), 0)

\* the zero-based position of x among the element children of its parent
ElementPosition(d, x) ==
    Cardinality({y \in 1..d.n : y < x /\ d.parent[y] = d.parent[x] /\ d.attrs[y].nodeType = "ELEMENT_NODE"})

\* the class names of an element, as a set: the maximal blank-free runs of
\* its class attribute
ClassSet(d, x) ==
    LET c == d.attrs[x].class
    IN  IF c = NULL THEN {}
        ELSE {SubSeq(c, i, j) : <<i, j>> \in
                 {r \in (1..Len(c)) \X (1..Len(c)) :
                     /\ r[1] <= r[2]
                     /\ \A k \in r[1]..r[2] : ~IsWhiteSpace(c[k])
                     /\ r[1] = 1 \/ IsWhiteSpace(c[r[1] - 1])
                     /\ r[2] = Len(c) \/ IsWhiteSpace(c[r[2] + 1])}}

LowerTag(d, x) == ToLowerCase(d.attrs[x].tagName)

\* the other element children of x's parent that carry x's tag
SameTagSiblings(d, x) ==
    {y \in 1..d.n : /\ y # x
                    /\ d.parent[y] = d.parent[x]
                    /\ d.attrs[y].nodeType = "ELEMENT_NODE"
                    /\ LowerTag(d, y) = LowerTag(d, x)}

\* the classes of x that no same-tag sibling carries
SurvivingClasses(d, x) ==
    ClassSet(d, x) \ UNION {ClassSet(d, y) : y \in SameTagSiblings(d, x)}

\* every CSSPathStep object the run has constructed without an Error
StepsBuilt ==
    {steps[i] : i \in 1..Len(steps)} \cup (IF pc = "built" /\ ~built.threw THEN {built} ELSE {})

\* those built structurally, through getWritingMode
StructuralSteps == {s \in StepsBuilt : s.writing.mode # "none"}

----------------------------------------------------------------------------
(* escapeIdentifierIfNeeded against the escaping rule as worded.           *)

\* "\" + two lower-case hex digits, and a blank unless the character is last
WordedEscapeOf(c, isLast) ==
    <<92, HexDigit(c \div 16), HexDigit(c % 16)>> \o (IF isLast THEN <<>> ELSE <<32>>)

\* the string begins with a digit, or with '-' followed by a digit or '-'
WordedForceFirst(s) ==
    /\ Len(s) > 0
    /\ \/ s[1] \in Digits
       \/ s[1] = 45 /\ Len(s) > 1 /\ s[2] \in Digits \cup {45}

WordedEscape(s) ==
    IF isCSSIdentifier(s) THEN s
    ELSE LET piece(i) ==
                 IF \/ s[i] \notin Letters \cup Digits \cup {95, 45} /\ s[i] < 160
                    \/ i = 1 /\ WordedForceFirst(s)
                 THEN WordedEscapeOf(s[i], i = Len(s))
                 ELSE <<s[i]>>
             cat[i \in 0..Len(s)] == IF i = 0 THEN <<>> ELSE cat[i - 1] \o piece(i)
         IN  cat[Len(s)]

\* C7: for every identifier escapeIdentifierIfNeeded returns what the worded
\* rule gives: a bare identifier unchanged; otherwise a character is escaped
\* exactly when it is outside [A-Za-z0-9_-] and below 0xA0, or it is the
\* first one of a string beginning with a digit or with '-' and a digit or
\* '-'; every other character passes through.
C7_EscapeAsWorded == pc = "escaped" => escOut = WordedEscape(escIn)

----------------------------------------------------------------------------
(* The sibling scan and the structural fragment.                           *)

\* '.' + escaped name for each name of a sequence
RECURSIVE ClassSelectors(_)
ClassSelectors(names) ==
    IF names = <<>> THEN <<>>
    ELSE <<46>> \o escapeIdentifierIfNeeded(names[1]) \o ClassSelectors(Tail(names))

\* the class tokens of x, in attribute order, that no same-tag sibling carries
SurvivingTokens(d, x) ==
    LET c == d.attrs[x].class
        tokens == IF c = NULL THEN <<>> ELSE SplitWhiteSpace(c, 1, <<>>)
    IN  SelectSeq(tokens, LAMBDA t : t \in SurvivingClasses(d, x))

\* C2: a step built in TAGNAME_AND_CLASSNAME mode has the fragment: lowercased
\* tag, then '.' + escaped name for each surviving class of the element (no
\* '$' left); an element with a class and no same-tag sibling gives
\* tag.class, never the bare tag.
C2_TagAndClassFragment ==
    \A s \in StructuralSteps :
        s.writing.mode = "TAGNAME_AND_CLASSNAME" /\ dom.attrs[s.node].type = NULL
            => s.value = LowerTag(dom, s.node) \o ClassSelectors(SurvivingTokens(dom, s.node))

\* C3: getWritingMode chooses NTH_CHILD exactly when the element has a same-tag
\* element sibling and none of its classes is carried by no same-tag sibling;
\* TAGNAME_AND_CLASSNAME otherwise; whatever the class attributes (repeated
\* tokens included) and the order of the siblings.
C3_ModeSelection ==
    \A s \in StructuralSteps :
        (s.writing.mode = "NTH_CHILD")
            <=> (SameTagSiblings(dom, s.node) # {} /\ SurvivingClasses(dom, s.node) = {})

\* C4: a fragment with :nth-child(k) has k = 1 + the zero-based position of
\* the element among the element children of its parent (text nodes not
\* counted), wherever the element sits among its siblings; k is never 0.
C4_NthChildIndex ==
    \A s \in StructuralSteps :
        /\ s.writing.mode = "NTH_CHILD" => Contains(s.value, <<58, 110, 116, 104, 45, 99, 104, 105, 108, 100, 40>>)
        /\ Contains(s.value, <<58, 110, 116, 104, 45, 99, 104, 105, 108, 100, 40>>) =>
               /\ NthChildArgument(s.value) = ElementPosition(dom, s.node) + 1
               /\ NthChildArgument(s.value) >= 1

\* the second of three same-tag siblings was given :nth-child(2): the scan
\* stopped before the sibling behind it
C4_Witness ==
    /\ pc = "built"
    /\ built.writing.mode = "NTH_CHILD"
    /\ NthChildArgument(built.value) = 2
    /\ \E y \in SameTagSiblings(dom, built.node) : y < built.node
    /\ \E y \in SameTagSiblings(dom, built.node) : y > built.node

----------------------------------------------------------------------------
(* The [type="..."] decoration.                                            *)

TypeOpen == <<91, 116, 121, 112, 101, 61, 34>>

\* the fragment an input decorated with its type must begin with
DecoratedTag(d, x) == LowerTag(d, x) \o TypeOpen \o d.attrs[x].type \o <<34, 93>>

\* C9 as worded: a fragment carries [type="<value>"] exactly when the step is
\* built for the original target, the tag is input, the element has a type
\* attribute, and it has neither an id nor a class.
C9_TypeDecorationAsWorded ==
    \A s \in StepsBuilt :
        Contains(s.value, TypeOpen)
            <=> /\ s.isTargetNode
                /\ LowerTag(dom, s.node) = <<105, 110, 112, 117, 116>>
                /\ dom.attrs[s.node].type # NULL
                /\ dom.attrs[s.node].id = NULL
                /\ dom.attrs[s.node].class = NULL

\* C9, amended: a fragment carries [type="<value>"] exactly when the step is
\* not optimized, is built for the original target, the tag is input, and the
\* type attribute is non-empty while id and class are absent or empty; the
\* decoration then follows the tag at once and the mode suffix follows it.
C9_TypeDecoration ==
    \A s \in StepsBuilt :
        LET decorated == /\ ~s.optimized
                         /\ s.isTargetNode
                         /\ LowerTag(dom, s.node) = <<105, 110, 112, 117, 116>>
                         /\ Truthy(dom.attrs[s.node].type)
                         /\ ~Truthy(dom.attrs[s.node].id)
                         /\ ~Truthy(dom.attrs[s.node].class)
        IN  /\ Contains(s.value, TypeOpen) <=> decorated
            /\ decorated =>
                   /\ StartsWith(s.value, DecoratedTag(dom, s.node))
                   /\ LET rest == SubSeq(s.value, Len(DecoratedTag(dom, s.node)) + 1, Len(s.value))
                      IN  IF s.writing.mode = "NTH_CHILD"
                          THEN rest = <<58, 110, 116, 104, 45, 99, 104, 105, 108, 100, 40>>
                                          \o ToString10(ElementPosition(dom, s.node) + 1) \o <<41>>
                          ELSE rest = <<>> \/ rest[1] = 46

\* input[type="text"]:nth-child(2) was built for a target input next to
\* another input
C9_Witness ==
    /\ pc = "built"
    /\ built.isTargetNode
    /\ built.value = <<105, 110, 112, 117, 116>> \o TypeOpen \o <<116, 101, 120, 116, 34, 93>>
                         \o <<58, 110, 116, 104, 45, 99, 104, 105, 108, 100, 40, 50, 41>>

----------------------------------------------------------------------------
(* The ascent.                                                             *)

\* x has a non-empty id, is html, head or body, or has no parent
IsAnchor(d, x) ==
    \/ Truthy(d.attrs[x].id)
    \/ LowerTag(d, x) \in {<<104, 116, 109, 108>>, <<104, 101, 97, 100>>, <<98, 111, 100, 121>>}
    \/ d.parent[x] = NullNode

\* the elements from x up to the top of its tree, x included
RECURSIVE ElementChain(_, _)
ElementChain(d, x) ==
    IF x = NullNode \/ d.attrs[x].nodeType # "ELEMENT_NODE" THEN {}
    ELSE {x} \cup ElementChain(d, d.parent[x])

Depth(d, x) == Cardinality(ElementChain(d, x))

\* some element of the chain of x is a child of a node that is neither an
\* element nor a document (a DocumentFragment)
UnderFragment(d, x) ==
    \E y \in ElementChain(d, x) :
        d.parent[y] # NullNode /\ d.attrs[d.parent[y]].nodeType = "DOCUMENT_FRAGMENT_NODE"

\* the fragment is #id, html, head or body, or the tag of a parentless element
OptimizedShape(d, s) ==
    /\ s.optimized
    /\ \/ s.value[1] = 35
       \/ s.value \in {<<104, 116, 109, 108>>, <<104, 101, 97, 100>>, <<98, 111, 100, 121>>}
       \/ d.parent[s.node] = NullNode /\ s.value = LowerTag(d, s.node)

\* C5 as worded: the first step of every non-empty path returned is an
\* optimized step: an id selector, html, head, body, or the tag of an element
\* without a parent.
C5_FirstStepOptimizedAsWorded ==
    pc = "done" /\ path # <<>> => OptimizedShape(dom, path[1])

\* C5, amended: the same for every target that is not inside a
\* DocumentFragment (no element of its ancestor chain is the child of one).
C5_FirstStepOptimized ==
    pc = "done" /\ path # <<>> /\ ~UnderFragment(dom, target) => OptimizedShape(dom, path[1])

\* a path of three steps under a document was returned
C5_Witness ==
    /\ pc = "done"
    /\ Len(path) = 3
    /\ dom.attrs[1].nodeType = "DOCUMENT_NODE"
    /\ path[1].optimized

\* C6: in every path returned, only the root-most step can be optimized: the
\* steps are those of the target and its ancestors, in order, up to the
\* nearest one that has a non-empty id, is html/head/body or has no parent;
\* every step after the first is non-optimized and belongs to no such element.
C6_OptimizedIsRootMost ==
    pc = "done" =>
        /\ \A i \in 2..Len(path) : ~path[i].optimized /\ ~IsAnchor(dom, path[i].node)
        /\ Cardinality({i \in 1..Len(path) : path[i].optimized}) <= 1
        /\ \A i \in 1..Len(path) : path[i].optimized => IsAnchor(dom, path[i].node)
        /\ path # <<>> => path[Len(path)].node = target
        /\ \A i \in 1..(Len(path) - 1) : path[i].node = dom.parent[path[i + 1].node]

\* a target under body under html: the path starts at body, html gets no step
C6_Witness ==
    /\ pc = "done"
    /\ Len(path) >= 2
    /\ path[1].value = <<98, 111, 100, 121>>
    /\ dom.parent[path[1].node] # NullNode
    /\ dom.attrs[dom.parent[path[1].node]].nodeType = "ELEMENT_NODE"

----------------------------------------------------------------------------
(* Failure of step building.                                               *)

\* C8 as worded: no step is built for a node that is not an element, nor for
\* an element whose parent is the document and whose tag is not html: the
\* construction raises an Error instead.
C8_DocumentChildFailsAsWorded ==
    \A s \in StepsBuilt :
        /\ dom.attrs[s.node].nodeType = "ELEMENT_NODE"
        /\ ~(/\ dom.parent[s.node] # NullNode
             /\ dom.attrs[dom.parent[s.node]].nodeType = "DOCUMENT_NODE"
             /\ LowerTag(dom, s.node) # <<104, 116, 109, 108>>)

\* building a step for x must fail: x is no element, or it is a child of the
\* document with an empty or absent id and a tag other than html, head, body
MustFail(d, x) ==
    \/ d.attrs[x].nodeType # "ELEMENT_NODE"
    \/ /\ d.parent[x] # NullNode
       /\ d.attrs[d.parent[x]].nodeType = "DOCUMENT_NODE"
       /\ ~Truthy(d.attrs[x].id)
       /\ LowerTag(d, x) \notin {<<104, 116, 109, 108>>, <<104, 101, 97, 100>>, <<98, 111, 100, 121>>}

\* C8, amended: building a step fails whenever the node is not an element, or
\* it is a child of the document that has no non-empty id and whose tag is
\* none of html, head, body; the Error leaves the constructor of the finder
\* with no path stored, whatever steps were collected.
C8_DocumentChildFails ==
    /\ \A s \in StepsBuilt : ~MustFail(dom, s.node)
    /\ pc = "built" /\ MustFail(dom, built.node) => built.threw /\ built.value = NULL
    /\ pc = "thrown" => MustFail(dom, contextNode) /\ path = <<>>
    /\ pc \in {"return", "done"} /\ contextNode # NullNode => ~MustFail(dom, contextNode)

\* the Error was raised at a child of the document after a step was collected
C8_Witness ==
    /\ pc = "thrown"
    /\ steps # <<>>
    /\ dom.attrs[dom.parent[contextNode]].nodeType = "DOCUMENT_NODE"

----------------------------------------------------------------------------
(* Termination of the ascent.                                              *)

\* the loop has run at most once per element from the target upwards, holds
\* at most one step per iteration, and what is left of the chain above the
\* cursor bounds the iterations to come
IterationBound ==
    pc \in {"loop", "return", "done", "thrown"} /\ target # NullNode =>
        /\ iters <= Depth(dom, target)
        /\ Len(steps) <= iters
        /\ pc = "loop" => iters + Depth(dom, contextNode) <= Depth(dom, target)

\* an iteration that stays in the loop moves the cursor to the parent
CursorAscends ==
    pc = "loop" /\ pc' = "loop" => contextNode' = dom.parent[contextNode] \/ contextNode' = NullNode

\* C10: for every tree and target the ascent ends, with a path returned or an
\* Error raised; each iteration moves the cursor to the parent element, so it
\* runs at most depth(T) iterations and holds at most one step per element of
\* the chain.
C10_AscentTerminates ==
    /\ []IterationBound
    /\ [][CursorAscends]_vars
    /\ (pc = "loop") ~> (pc \in {"done", "thrown"})

\* the loop ran once per element of a chain of three and returned
C10_Witness ==
    /\ pc = "done"
    /\ iters = 3
    /\ Depth(dom, target) = 3

----------------------------------------------------------------------------
(* Evaluating a selector against the tree: type, id, class, [type="..."],  *)
(* :nth-child(n) and the child combinator, as querySelectorAll reads them. *)

HexDigits == Digits \cup (97..102) \cup (65..70)
HexValue(c) == IF c \in Digits THEN c - 48 ELSE IF c \in 97..102 THEN c - 87 ELSE c - 55

\* a character that stands for itself inside an identifier
IsNameChar(c) == c \in Letters \cup Digits \cup {95, 45} \/ c >= 128

\* the number of hexadecimal digits (at most 6) of s from position i on
RECURSIVE HexRun(_, _, _)
HexRun(s, i, n) ==
    IF n = 6 \/ i > Len(s) \/ s[i] \notin HexDigits THEN n ELSE HexRun(s, i + 1, n + 1)

\* the length of the escape that begins with the backslash at position i:
\* the hexadecimal digits and one blank after them, or one other character
EscapeLength(s, i) ==
    LET h == HexRun(s, i + 1, 0)
    IN  IF h = 0 THEN 2
        ELSE IF i + h + 1 <= Len(s) /\ s[i + h + 1] \in {32, 9, 10, 12, 13} THEN h + 2 ELSE h + 1

\* the end of the identifier that begins at position i (i - 1 when none does)
RECURSIVE IdentEnd(_, _)
IdentEnd(s, i) ==
    IF i > Len(s) THEN i - 1
    ELSE IF IsNameChar(s[i]) THEN IdentEnd(s, i + 1)
    ELSE IF s[i] = 92 /\ i < Len(s) /\ ~IsLineTerminator(s[i + 1])
         THEN IdentEnd(s, i + EscapeLength(s, i))
    ELSE i - 1

RECURSIVE HexNumber(_, _)
HexNumber(s, acc) == IF s = <<>> THEN acc ELSE HexNumber(Tail(s), 16 * acc + HexValue(s[1]))

\* the identifier a source text denotes, escapes resolved
RECURSIVE Unescape(_, _)
Unescape(s, i) ==
    IF i > Len(s) THEN <<>>
    ELSE IF s[i] # 92 THEN <<s[i]>> \o Unescape(s, i + 1)
    ELSE LET h == HexRun(s, i + 1, 0)
         IN  IF h = 0 THEN <<s[i + 1]>> \o Unescape(s, i + 2)
             ELSE <<HexNumber(SubSeq(s, i + 1, i + h), 0)>> \o Unescape(s, i + EscapeLength(s, i))

\* a compound selector as a sequence of simple selectors [kind, arg]
RECURSIVE ParseCompound(_, _)
ParseCompound(s, first) ==
    IF s = <<>> THEN <<>>
    ELSE IF s[1] \in {35, 46}
    THEN LET e == IdentEnd(s, 2)
         IN  IF e < 2 THEN <<[kind |-> "invalid", arg |-> <<>>]>>
             ELSE <<[kind |-> IF s[1] = 35 THEN "id" ELSE "class", arg |-> Unescape(SubSeq(s, 2, e), 1)]>>
                      \o ParseCompound(SubSeq(s, e + 1, Len(s)), FALSE)
    ELSE IF StartsWith(s, TypeOpen)
    THEN LET rest == SubSeq(s, Len(TypeOpen) + 1, Len(s))
             close == FindSub(rest, <<34, 93>>)
         IN  IF close = 0 THEN <<[kind |-> "invalid", arg |-> <<>>]>>
             ELSE <<[kind |-> "type-attribute", arg |-> SubSeq(rest, 1, close - 1)]>>
                      \o ParseCompound(SubSeq(rest, close + 2, Len(rest)), FALSE)
    ELSE IF StartsWith(s, <<58, 110, 116, 104, 45, 99, 104, 105, 108, 100, 40>>)
    THEN LET close == FindSub(s, <<41>>)
         IN  IF close = 0 THEN <<[kind |-> "invalid", arg |-> <<>>]>>
             ELSE <<[kind |-> "nth-child", arg |-> SubSeq(s, 12, close - 1)]>>
                      \o ParseCompound(SubSeq(s, close + 1, Len(s)), FALSE)
    ELSE LET e == IdentEnd(s, 1)
         IN  IF ~first \/ e < 1 THEN <<[kind |-> "invalid", arg |-> <<>>]>>
             ELSE <<[kind |-> "tag", arg |-> Unescape(SubSeq(s, 1, e), 1)]>>
                      \o ParseCompound(SubSeq(s, e + 1, Len(s)), FALSE)

\* the compounds of a selector, split at the child combinator " > "
RECURSIVE SplitCombinator(_)
SplitCombinator(s) ==
    LET at == FindSub(s, <<32, 62, 32>>)
    IN  IF at = 0 THEN <<s>>
        ELSE <<SubSeq(s, 1, at - 1)>> \o SplitCombinator(SubSeq(s, at + 3, Len(s)))

MatchesSimple(d, x, simple) ==
    CASE simple.kind = "tag" -> LowerTag(d, x) = ToLowerCase(simple.arg)
      [] simple.kind = "id" -> d.attrs[x].id = simple.arg
      [] simple.kind = "class" -> simple.arg \in ClassSet(d, x)
      [] simple.kind = "type-attribute" -> d.attrs[x].type = simple.arg
      [] simple.kind = "nth-child" ->
             d.parent[x] # NullNode /\ ParseDecimal(simple.arg, 0) = ElementPosition(d, x) + 1
      [] OTHER -> FALSE

MatchesCompound(d, x, compound) ==
    /\ d.attrs[x].nodeType = "ELEMENT_NODE"
    /\ compound # <<>>
    /\ \A i \in 1..Len(compound) : MatchesSimple(d, x, compound[i])

\* x matches the compounds 1..k chained by the child combinator
RECURSIVE MatchesChain(_, _, _, _)
MatchesChain(d, x, compounds, k) ==
    /\ MatchesCompound(d, x, compounds[k])
    /\ k = 1 \/ (d.parent[x] # NullNode /\ MatchesChain(d, d.parent[x], compounds, k - 1))

\* querySelectorAll(selector) on the tree
QuerySelectorAll(d, selector) ==
    LET parts == SplitCombinator(selector)
        compounds == [i \in 1..Len(parts) |-> ParseCompound(parts[i], TRUE)]
    IN  {x \in 1..d.n : MatchesChain(d, x, compounds, Len(compounds))}

\* no two elements of the tree share a non-empty id
UniqueIds(d) ==
    \A x, y \in 1..d.n : x # y /\ Truthy(d.attrs[x].id) => d.attrs[x].id # d.attrs[y].id

\* C1: for every element target of a document (with unique ids), the selector
\* toString() renders from the path matches the target and no other element,
\* even when other elements share its tag or classes.
C1_SelectorMatchesOnlyTarget ==
    /\ pc = "done"
    /\ path # <<>>
    /\ dom.attrs[1].nodeType = "DOCUMENT_NODE"
    /\ UniqueIds(dom)
    => QuerySelectorAll(dom, toString(path)) = {target}

====
